---- MODULE Spec2Model ----
(***************************************************************************)
(* A model of the YouTube tools MCP server: the identifier normalizer      *)
(* (extractVideoId), the tool handlers of src/index.ts and the summary     *)
(* store of src/database.ts (one SQL statement per store operation).       *)
(*                                                                         *)
(* Strings that the code parses character by character (video references,  *)
(* summaries) are sequences of one-character strings.  Error messages,     *)
(* which the code only searches for whole words, are sequences of words.   *)
(***************************************************************************)
EXTENDS Integers, Sequences, FiniteSets, Bags, TLC

VARIABLES
    rows,        \* the table video_summaries: a bag of rows
    now,         \* the value CURRENT_TIMESTAMP yields
    req,         \* per client: the invocation that is waiting on its await
    response,    \* what the step just taken handed back to its caller
    lastStored,  \* history: per key, the summary of the last committed upsert
    rapidApiKey, \* process.env.RAPIDAPI_KEY
    raw,         \* normalizer run: the input string
    vid,         \* normalizer run: the value returned
    pc,          \* normalizer run: "ready" or "returned"
    transcript,  \* rendering run: the mapped segments
    rendering,   \* rendering run: what lines 293-328 make of them
    life,        \* the process: where run() and the SIGINT handler stand,
                 \* the connection of the store, the transport, the exit code
    youtubeApiKey \* process.env.YOUTUBE_API_KEY

vars == <<rows, now, req, response, lastStored, rapidApiKey, raw, vid, pc,
          transcript, rendering, life, youtubeApiKey>>
storeVars == <<rows, now, req, response, lastStored, rapidApiKey>>
normVars == <<raw, vid, pc>>
renderVars == <<transcript, rendering>>
lifeVars == <<life>>
envVars == <<youtubeApiKey>>

-----------------------------------------------------------------------------
(* Strings *)

EmptyStr == <<>>

Includes(s, ch) == \E i \in 1..Len(s) : s[i] = ch

MatchAt(s, i, m) ==
    /\ i >= 1
    /\ i + Len(m) - 1 <= Len(s)
    /\ SubSeq(s, i, i + Len(m) - 1) = m

IncludesStr(s, m) == \E i \in 1..(Len(s) + 1) : MatchAt(s, i, m)

SetMin(S) == CHOOSE x \in S : \A y \in S : x <= y
SetMax(S) == CHOOSE x \in S : \A y \in S : x >= y

-----------------------------------------------------------------------------
(* extractVideoId: src/index.ts 218-239, the same text in src/cli.js 18-39 *)

IdLength == 11

WatchMarker == <<"y", "o", "u", "t", "u", "b", "e", ".", "c", "o", "m", "/", "w", "a", "t", "c", "h", "?", "v", "=">>
ShortMarker == <<"y", "o", "u", "t", "u", ".", "b", "e", "/">>
EmbedMarker == <<"y", "o", "u", "t", "u", "b", "e", ".", "c", "o", "m", "/", "e", "m", "b", "e", "d", "/">>
PathMarker == <<"y", "o", "u", "t", "u", "b", "e", ".", "c", "o", "m", "/", "v", "/">>
WatchPrefix == <<"y", "o", "u", "t", "u", "b", "e", ".", "c", "o", "m", "/", "w", "a", "t", "c", "h", "?">>
VParam == <<"v", "=">>

\* the alternation of the first pattern
Markers == {WatchMarker, ShortMarker, EmbedMarker, PathMarker}

\* mutants of the character class: one that forgets '&', one that forgets '#'
DelimsNoAmp == {"\n", "?", "#"}
DelimsNoHash == {"&", "\n", "?"}

\* mutant: the class forgets the newline
DelimsNoNewline == {"&", "?", "#"}

\* the characters the capture group [^&\n?#] refuses
Delims == {"&", "\n", "?", "#"}

\* the characters '.' refuses (of the alphabet used here)
LineTerminators == {"\n"}

\* the last position of the greedy run [^&\n?#]+ that starts at j
RunEnd(s, j) ==
    LET stops == {k \in j..Len(s) : s[k] \in Delims}
    IN  IF stops = {} THEN Len(s) ELSE SetMin(stops) - 1

NoMatch == [found |-> FALSE, group |-> EmptyStr]

\* the start positions at which a marker is followed by at least one
\* character of the capture group
Pattern1Starts(s) ==
    {i \in 1..Len(s) :
        \E m \in Markers :
            /\ MatchAt(s, i, m)
            /\ i + Len(m) <= Len(s)
            /\ s[i + Len(m)] \notin Delims}

\* input.match(patterns[0]): the leftmost match, its group 1
Pattern1(s) ==
    IF Pattern1Starts(s) = {} THEN NoMatch
    ELSE LET i == SetMin(Pattern1Starts(s))
             m == CHOOSE mk \in Markers :
                      /\ MatchAt(s, i, mk)
                      /\ i + Len(mk) <= Len(s)
                      /\ s[i + Len(mk)] \notin Delims
             j == i + Len(m)
         IN  [found |-> TRUE, group |-> SubSeq(s, j, RunEnd(s, j))]

\* for the prefix youtube.com/watch? at i: the positions q of a "v=" that
\* '.*' can reach (no line terminator in between) and that a character of
\* the capture group follows
Pattern2VPositions(s, i) ==
    LET p == i + Len(WatchPrefix)
    IN  {q \in p..Len(s) :
            /\ \A k \in p..(q - 1) : s[k] \notin LineTerminators
            /\ MatchAt(s, q, VParam)
            /\ q + Len(VParam) <= Len(s)
            /\ s[q + Len(VParam)] \notin Delims}

Pattern2Starts(s) ==
    {i \in 1..Len(s) : MatchAt(s, i, WatchPrefix) /\ Pattern2VPositions(s, i) # {}}

\* input.match(patterns[1]): leftmost prefix, '.*' greedy, so the last "v="
Pattern2(s) ==
    IF Pattern2Starts(s) = {} THEN NoMatch
    ELSE LET i == SetMin(Pattern2Starts(s))
             q == SetMax(Pattern2VPositions(s, i))
             j == q + Len(VParam)
         IN  [found |-> TRUE, group |-> SubSeq(s, j, RunEnd(s, j))]

\* the test of the first rule: 11 characters, no '/', no '='
IsBareId(input) ==
    /\ Len(input) = IdLength
    /\ ~Includes(input, "/")
    /\ ~Includes(input, "=")

\* mutant: every path cuts its result at the first query delimiter
extractVideoIdSanitized(input) ==
    LET r == IF Pattern1(input).found THEN Pattern1(input).group
             ELSE IF Pattern2(input).found THEN Pattern2(input).group
             ELSE input
    IN  IF r = EmptyStr THEN r ELSE SubSeq(r, 1, RunEnd(r, 1))

\* mutant: an input that no pattern matches is refused (empty result)
extractVideoIdNoFallback(input) ==
    IF IsBareId(input) THEN input
    ELSE IF Pattern1(input).found THEN Pattern1(input).group
    ELSE IF Pattern2(input).found THEN Pattern2(input).group
    ELSE EmptyStr

extractVideoId(input) ==
    IF IsBareId(input) THEN input
    ELSE IF Pattern1(input).found THEN Pattern1(input).group
    ELSE IF Pattern2(input).found THEN Pattern2(input).group
    ELSE input

-----------------------------------------------------------------------------
(* Inputs of the normalizer runs: concatenations of a few fragments *)

MaxTokens == 3

VID == <<"d", "Q", "w", "4", "w", "9", "W", "g", "X", "c", "Q">>
ShortId == <<"a", "b">>
Https == <<"h", "t", "t", "p", "s", ":", "/", "/">>
HttpsWww == Https \o <<"w", "w", "w", ".">>
Odd11 == <<"a", "?", "b", "&", "c", "#", "d", "-", "e", "_", "f">>
TParam == <<"t", "=", "1">>
WatchLater == WatchPrefix \o TParam \o <<"&">> \o VParam
RevParam == <<"&", "r", "e", "v", "=", "2">>

Tokens ==
    {HttpsWww, WatchMarker, ShortMarker, EmbedMarker, PathMarker, WatchLater,
     VParam, VID, ShortId, Odd11, <<"&">> \o TParam, RevParam,
     <<"?">>, <<"#">>, <<"\n">>, <<"/">>}

RECURSIVE Concats(_)
Concats(n) ==
    IF n = 0 THEN {EmptyStr}
    ELSE LET shorter == Concats(n - 1)
         IN  shorter \cup {s \o t : s \in shorter, t \in Tokens}

Inputs == Concats(MaxTokens)

-----------------------------------------------------------------------------
(* JavaScript values that cross the tool boundary or come from upstream *)

Undefined == [t |-> "undefined"]
Null == [t |-> "null"]
Str(s) == [t |-> "string", v |-> s]
Num(n) == [t |-> "number", v |-> n]
Arr(a) == [t |-> "array", v |-> a]

\* mutant: only the absence of a value counts, the empty string passes
TruthyUnlessAbsent(v) == v.t \notin {"undefined", "null"}

\* !v is false
Truthy(v) ==
    CASE v.t = "undefined" -> FALSE
      [] v.t = "null" -> FALSE
      [] v.t = "string" -> v.v # EmptyStr
      [] v.t = "number" -> v.v # 0
      [] OTHER -> TRUE

\* v.field for a value that is neither null nor undefined
Get(v, field) ==
    IF v.t = "object" /\ field \in DOMAIN v THEN v[field] ELSE Undefined

-----------------------------------------------------------------------------
(* The table video_summaries and the statements run on it:                  *)
(* src/database.ts 26-33, 59-65, 85-88, 134-137                             *)

MaxTime == 1

Row(id, s, created, updated) ==
    [video_id |-> id, summary |-> s, created_at |-> created, updated_at |-> updated]

\* the rows WHERE video_id = id, as a bag
RowsOf(tbl, id) ==
    [r \in {x \in DOMAIN tbl : x.video_id = id} |-> tbl[r]]

\* the rows WHERE video_id # id, as a bag
RowsNot(tbl, id) ==
    [r \in {x \in DOMAIN tbl : x.video_id # id} |-> tbl[r]]

RowCount(tbl, id) == BagCardinality(RowsOf(tbl, id))

\* the summaries stored WHERE video_id = id
SummariesOf(tbl, id) == {r.summary : r \in BagToSet(RowsOf(tbl, id))}

\* mutant: INSERT without the conflict clause taking the old row away
InsertKeepingOld(tbl, id, s, ts) ==
    tbl (+) SetToBag({Row(id, s, ts, ts)})

\* mutant: INSERT OR IGNORE, the row that is there stays
InsertOrIgnore(tbl, id, s, ts) ==
    IF RowCount(tbl, id) > 0 THEN tbl
    ELSE tbl (+) SetToBag({Row(id, s, ts, ts)})

\* mutant: the write lands on top of the text that is there
InsertAppending(tbl, id, s, ts) ==
    LET old == BagToSet(RowsOf(tbl, id))
    IN  IF old = {} THEN tbl (+) SetToBag({Row(id, s, ts, ts)})
        ELSE RowsNot(tbl, id) (+)
             SetToBag({Row(id, (CHOOSE r \in old : TRUE).summary \o s, ts, ts)})

\* mutant: a replaced row keeps the updated_at it had
InsertKeepingUpdatedAt(tbl, id, s, ts) ==
    LET old == BagToSet(RowsOf(tbl, id))
    IN  IF old = {} THEN RowsNot(tbl, id) (+) SetToBag({Row(id, s, ts, ts)})
        ELSE RowsNot(tbl, id) (+)
             SetToBag({Row(id, s, ts, (CHOOSE r \in old : TRUE).updated_at)})

\* mutant: the conflict clause takes every row away, not the row of the key
InsertReplacingAll(tbl, id, s, ts) ==
    SetToBag({Row(id, s, ts, ts)})

\* INSERT OR REPLACE INTO video_summaries (video_id, summary, updated_at)
\* VALUES (?, ?, CURRENT_TIMESTAMP): video_id is the PRIMARY KEY, so the row
\* in conflict is deleted and a new row is inserted; created_at is not in
\* the column list and takes its DEFAULT CURRENT_TIMESTAMP
InsertOrReplace(tbl, id, s, ts) ==
    RowsNot(tbl, id) (+) SetToBag({Row(id, s, ts, ts)})

\* SELECT summary FROM video_summaries WHERE video_id = ?: result.rows
SelectSummary(tbl, id) == BagToSet(RowsOf(tbl, id))

\* mutant: the statement reports the rows it matched and leaves them
DeleteWhereKeeping(tbl, id) ==
    [table |-> tbl, rowsAffected |-> RowCount(tbl, id)]

\* mutant: the statement without its WHERE clause
DeleteEverything(tbl, id) ==
    [table |-> EmptyBag, rowsAffected |-> RowCount(tbl, id)]

\* mutant: the statement reports the rows of the whole table
DeleteWhereCountingAll(tbl, id) ==
    [table |-> RowsNot(tbl, id), rowsAffected |-> BagCardinality(tbl)]

\* DELETE FROM video_summaries WHERE video_id = ?
DeleteWhere(tbl, id) ==
    [table |-> RowsNot(tbl, id), rowsAffected |-> RowCount(tbl, id)]

-----------------------------------------------------------------------------
(* The process: src/index.ts 44-72 and 607-624, src/database.ts 12-45, 153-160 *)

\* the state in which requests are served: run() has initialized the store
\* and connected the transport, no SIGINT has come
Started ==
    [run |-> "running", database |-> "open", transport |-> "connected",
     sigint |-> "idle", exit |-> "none"]

\* after the constructors, when run() awaits database.initialize()
Constructed ==
    [run |-> "initialize", database |-> "created", transport |-> "none",
     sigint |-> "idle", exit |-> "none"]

\* process.exit has not been called
Alive == life.exit = "none"

\* the transport delivers requests to the handler
Serving == Alive /\ life.transport = "connected"

\* what a statement can come back with: a closed connection runs none
StatementOutcomes == IF life.database = "closed" THEN {FALSE} ELSE BOOLEAN

-----------------------------------------------------------------------------
(* Tool invocations and what they hand back *)

Clients == {"c1", "c2"}

ShortUrl == Https \o ShortMarker \o VID
SummaryX == <<"x", "x">>
SummaryY == <<"y", "y">>

\* the videoId and summary arguments a caller may send
VideoArgs == {Undefined, Str(EmptyStr), Str(VID), Str(ShortUrl)}
SummaryArgs == {Undefined, Str(EmptyStr), Str(SummaryX), Str(SummaryY)}

\* the strings that can reach the store as a key
Keys == {a.v : a \in {x \in VideoArgs : Truthy(x)}}

Call(tool, videoId, summary) ==
    [tool |-> tool, videoId |-> videoId, summary |-> summary, rivals |-> {}]

Idle == Call("idle", Undefined, Undefined)

NoReply == [status |-> "none"]

\* a result payload: content[0].text, as the template and what it interpolates
Result(msg, id, detail, segments) ==
    [outcome |-> "result", code |-> "", msg |-> msg, id |-> id,
     detail |-> detail, segments |-> segments]

\* mutant: the failure is logged and the handler returns a payload
McpErrorReturned(code, msg, id, detail) ==
    [outcome |-> "result", code |-> "", msg |-> msg, id |-> id,
     detail |-> detail, segments |-> <<>>]

\* throw new McpError(code, msg + id + detail)
McpError(code, msg, id, detail) ==
    [outcome |-> "error", code |-> code, msg |-> msg, id |-> id,
     detail |-> detail, segments |-> <<>>]

\* a DatabaseService method called directly: its return value or its Error
Returned(value) ==
    [outcome |-> "returned", code |-> "", msg |-> value, id |-> EmptyStr,
     detail |-> <<>>, segments |-> <<>>]

Thrown(msg) ==
    [outcome |-> "error", code |-> "Error", msg |-> msg, id |-> EmptyStr,
     detail |-> <<>>, segments |-> <<>>]

NoResult == [outcome |-> "none"]

\* the tools the handler of CallToolRequestSchema knows, lines 192-199
RegisteredTools ==
    {"get_youtube_transcript", "search_youtube", "fetchExistingVideoSummary",
     "storeVideoSummary"}

\* mutant: the catch of the dispatcher wraps every error, McpError included
CallToolWrappingAll(result) ==
    IF result.outcome = "error"
    THEN [outcome |-> "error", code |-> "InternalError",
          msg |-> "Tool execution failed: ", id |-> EmptyStr,
          detail |-> <<result.msg>>, segments |-> <<>>]
    ELSE result

\* lines 191-214: what the dispatcher makes of what a handler returned or
\* threw; an McpError passes, any other error is wrapped
CallTool(result) ==
    IF result.outcome = "error" /\ result.code = "Error"
    THEN [outcome |-> "error", code |-> "InternalError",
          msg |-> "Tool execution failed: ", id |-> EmptyStr,
          detail |-> <<result.msg>>, segments |-> <<>>]
    ELSE result

\* the message of the error a failed statement raises
DbFailure == <<"SQLITE_IOERR:", "disk", "I/O", "error">>

\* what a statement of the store came back with
DbDone == [status |-> "done"]
DbError == [status |-> "error", message |-> DbFailure]

\* what a step handed back, with the bookkeeping the properties read: the
\* invocation, the reply of the provider or of the store, and the rows of
\* the key of the invocation as they were before the statement ran
Response(call, reply, before, result) ==
    [call |-> call, reply |-> reply, before |-> before, result |-> result]

NoResponse == Response(Idle, NoReply, EmptyBag, NoResult)

\* what a step of a tool invocation hands back through the dispatcher
ToolResponse(call, reply, before, result) ==
    Response(call, reply, before, CallTool(result))

\* a request for a tool the dispatcher does not know, line 201
UnknownToolCall(c) ==
    /\ Serving
    /\ req[c] = Idle
    /\ \E name \in {"delete_video_summary", "get_transcript"} :
          response' = ToolResponse(Call(name, Str(VID), Undefined), NoReply, EmptyBag,
                         McpError("MethodNotFound", "Unknown tool: ", EmptyStr, <<name>>))
    /\ UNCHANGED <<rows, now, req, lastStored, rapidApiKey, normVars, renderVars, lifeVars, envVars>>

\* a request without arguments: every handler starts by destructuring args
\* (lines 242, 370, 513, 555), which raises a TypeError outside its try
\* block; and a transcript request whose videoId is a number, on which
\* extractVideoId (line 251, outside the try block) calls match
BadArgumentsCall(c) ==
    /\ Serving
    /\ req[c] = Idle
    /\ \/ \E name \in RegisteredTools :
             response' = ToolResponse(Call(name, Undefined, Undefined), NoReply, EmptyBag,
                            Thrown("Cannot destructure property of undefined"))
       \/ response' = ToolResponse(Call("get_youtube_transcript", Num(5), Undefined),
                            NoReply, EmptyBag, Thrown("input.match is not a function"))
    /\ UNCHANGED <<rows, now, req, lastStored, rapidApiKey, normVars, renderVars, lifeVars, envVars>>


-----------------------------------------------------------------------------
(* storeVideoSummary: src/index.ts 554-590 around src/database.ts 52-72 *)

Pending(c, tool) == req[c].tool = tool

\* the other invocations of storeVideoSummary waiting on the same key
StoreRivals(c, key) ==
    {d \in Clients \ {c} :
        Pending(d, "storeVideoSummary") /\ req[d].videoId = Str(key)}

\* the handler up to its await: both parameter checks of the tool, then the
\* check of DatabaseService.storeVideoSummary, then the statement is issued
StoreSummaryCall(c) ==
    /\ Serving
    /\ req[c] = Idle
    /\ \E videoId \in VideoArgs, summary \in SummaryArgs :
         LET call == Call("storeVideoSummary", videoId, summary)
         IN  IF ~Truthy(videoId)
             THEN /\ response' = ToolResponse(call, NoReply, EmptyBag,
                        McpError("InvalidParams", "videoId parameter is required", EmptyStr, <<>>))
                  /\ req' = req
             ELSE IF ~Truthy(summary)
             THEN /\ response' = ToolResponse(call, NoReply, EmptyBag,
                        McpError("InvalidParams", "summary parameter is required", EmptyStr, <<>>))
                  /\ req' = req
             ELSE IF ~Truthy(videoId) \/ ~Truthy(summary)
             THEN /\ response' = ToolResponse(call, NoReply, EmptyBag,
                        McpError("InternalError", "Failed to store video summary: ", EmptyStr,
                                 <<"Both", "videoId", "and", "summary", "are", "required">>))
                  /\ req' = req
             ELSE /\ response' = NoResponse
                  /\ req' = [req EXCEPT ![c] = call]
    /\ UNCHANGED <<rows, now, lastStored, rapidApiKey, normVars, renderVars, lifeVars, envVars>>

\* the statement runs (or the medium refuses it) and the handler resumes.
\* The field rivals of the upserts of the same key that are still waiting is
\* bookkeeping: the summaries committed while they waited.
StoreSummaryDone(c) ==
    /\ Alive
    /\ Pending(c, "storeVideoSummary")
    /\ \E ok \in StatementOutcomes :
         LET key == req[c].videoId.v
             summary == req[c].summary.v
         IN  IF ok
             THEN /\ rows' = InsertOrReplace(rows, key, summary, now)
                  /\ lastStored' = [lastStored EXCEPT ![key] = {summary}]
                  /\ response' = ToolResponse(req[c], DbDone, RowsOf(rows, key),
                        Result("Successfully stored summary for video ID: ", key, <<>>, <<>>))
                  /\ req' = [d \in Clients |->
                        IF d = c THEN Idle
                        ELSE IF d \in StoreRivals(c, key)
                        THEN [req[d] EXCEPT !.rivals = @ \cup {summary}]
                        ELSE req[d]]
             ELSE /\ UNCHANGED <<rows, lastStored>>
                  /\ response' = ToolResponse(req[c], DbError, RowsOf(rows, key),
                        McpError("InternalError", "Failed to store video summary: ", EmptyStr, DbFailure))
                  /\ req' = [req EXCEPT ![c] = Idle]
    /\ UNCHANGED <<now, rapidApiKey, normVars, renderVars, lifeVars, envVars>>

-----------------------------------------------------------------------------
(* fetchExistingVideoSummary: src/index.ts 512-552 around src/database.ts 79-101 *)

FetchSummaryCall(c) ==
    /\ Serving
    /\ req[c] = Idle
    /\ \E videoId \in VideoArgs :
         LET call == Call("fetchExistingVideoSummary", videoId, Undefined)
         IN  IF ~Truthy(videoId)
             THEN /\ response' = ToolResponse(call, NoReply, EmptyBag,
                        McpError("InvalidParams", "videoId parameter is required", EmptyStr, <<>>))
                  /\ req' = req
             ELSE /\ response' = NoResponse
                  /\ req' = [req EXCEPT ![c] = call]
    /\ UNCHANGED <<rows, now, lastStored, rapidApiKey, normVars, renderVars, lifeVars, envVars>>

FetchSummaryDone(c) ==
    /\ Alive
    /\ Pending(c, "fetchExistingVideoSummary")
    /\ \E ok \in StatementOutcomes :
         LET key == req[c].videoId.v
             found == SelectSummary(rows, key)
         IN  IF ~ok
             THEN response' = ToolResponse(req[c], DbError, RowsOf(rows, key),
                     McpError("InternalError", "Failed to fetch video summary: ", EmptyStr, DbFailure))
             ELSE IF found = {}
             THEN response' = ToolResponse(req[c], DbDone, RowsOf(rows, key),
                     Result("No summary found for video ID: ", key, <<>>, <<>>))
             ELSE \E first \in found :
                     response' = ToolResponse(req[c], DbDone, RowsOf(rows, key),
                        Result("Summary for video ID: ", key, first.summary, <<>>))
    /\ req' = [req EXCEPT ![c] = Idle]
    /\ UNCHANGED <<rows, now, lastStored, rapidApiKey, normVars, renderVars, lifeVars, envVars>>

-----------------------------------------------------------------------------
(* DatabaseService.deleteVideoSummary, called directly: src/database.ts 128-148 *)

DeleteCall(c) ==
    /\ Alive
    /\ req[c] = Idle
    /\ \E videoId \in VideoArgs :
         LET call == Call("deleteVideoSummary", videoId, Undefined)
         IN  IF ~Truthy(videoId)
             THEN /\ response' = Response(call, NoReply, EmptyBag, Thrown("videoId is required"))
                  /\ req' = req
             ELSE /\ response' = NoResponse
                  /\ req' = [req EXCEPT ![c] = call]
    /\ UNCHANGED <<rows, now, lastStored, rapidApiKey, normVars, renderVars, lifeVars, envVars>>

DeleteDone(c) ==
    /\ Alive
    /\ Pending(c, "deleteVideoSummary")
    /\ \E ok \in StatementOutcomes :
         LET key == req[c].videoId.v
             done == DeleteWhere(rows, key)
         IN  IF ~ok
             THEN /\ UNCHANGED <<rows, lastStored>>
                  /\ response' = Response(req[c], DbError, RowsOf(rows, key), Thrown("SQLITE_IOERR"))
             ELSE /\ rows' = done.table
                  /\ lastStored' = [lastStored EXCEPT ![key] = {}]
                  /\ response' = Response(req[c], DbDone, RowsOf(rows, key),
                        Returned(IF done.rowsAffected > 0 THEN "true" ELSE "false"))
    /\ req' = [req EXCEPT ![c] = Idle]
    /\ UNCHANGED <<now, rapidApiKey, normVars, renderVars, lifeVars, envVars>>

-----------------------------------------------------------------------------
(* getYouTubeTranscript: src/index.ts 241-367 *)

Segment(text, offset, duration) ==
    [t |-> "object", text |-> Str(text), offset |-> Num(offset), duration |-> Num(duration)]

Body(content) == [t |-> "object", content |-> content]

SegA == Segment(<<"a">>, 0, 500)
SegB == Segment(<<"b">>, 7000, 500)

\* response.data of a reply with a success status
UpstreamBodies ==
    { Undefined,                          \* no body
      Null,
      [t |-> "object"],                   \* a body without the field content
      Body(Null),
      Body(Str(EmptyStr)),
      Body(Arr(<<>>)),                    \* no captions
      Body(Arr(<<SegA>>)),
      Body(Arr(<<SegA, SegB>>)),
      Body(Str(<<"o", "o", "p", "s">>)),  \* content that is no array
      Body([t |-> "object"]),
      Body(Num(1)),
      Body(Arr(<<Null>>)),                \* an array whose entries are no records
      Body(Arr(<<SegA, Undefined>>)),
      Body(Arr(<<Num(1), Num(2)>>)) }

\* error.message of the failures the HTTP client raises
UpstreamFailures ==
    { <<"Request", "failed", "with", "status", "code", "403">>,
      <<"Request", "failed", "with", "status", "code", "404">>,
      <<"Request", "failed", "with", "status", "code", "500">>,
      <<"invalid", "video", "ID">>,
      <<"transcript", "not", "available">>,
      <<"403", "transcript", "not", "available">>,
      <<"Network", "Error">> }

UpstreamReplies ==
    {[status |-> "ok", data |-> d] : d \in UpstreamBodies}
        \cup {[status |-> "error", message |-> m] : m \in UpstreamFailures}

KeyMissing ==
    <<"RapidAPI", "key", "not", "found.", "Please", "set", "RAPIDAPI_KEY", "in",
      "your", ".env", "file.">>

\* transcriptData && transcriptData.content
HasContent(data) == Truthy(data) /\ Truthy(Get(data, "content"))

\* what evaluating transcriptData.content.map(entry => ({text: entry.text, ...}))
\* raises: content has no method map unless it is an array, and a property
\* of null or undefined cannot be read
MapFailure(content) ==
    IF content.t # "array"
    THEN <<"transcriptData.content.map", "is", "not", "a", "function">>
    ELSE IF \E i \in 1..Len(content.v) : content.v[i].t \in {"null", "undefined"}
    THEN <<"Cannot", "read", "properties", "of", "null", "or", "undefined">>
    ELSE <<>>

\* mutant: the mapping without the test of line 285 in front of it
ToTranscriptUnguarded(data) ==
    LET content == Get(data, "content")
    IN  IF ~Truthy(data) \/ content.t # "array" \/ MapFailure(content) # <<>>
        THEN [threw |-> TRUE,
              message |-> <<"Cannot", "read", "properties", "of", "undefined">>,
              transcript |-> <<>>]
        ELSE [threw |-> FALSE, message |-> <<>>,
              transcript |->
                 [i \in 1..Len(content.v) |->
                    [text |-> Get(content.v[i], "text"),
                     offset |-> Get(content.v[i], "offset"),
                     duration |-> Get(content.v[i], "duration")]]]

\* lines 284-291: the transcript, or the TypeError the mapping raised
ToTranscript(data) ==
    IF ~HasContent(data) THEN [threw |-> FALSE, message |-> <<>>, transcript |-> <<>>]
    ELSE LET content == Get(data, "content")
         IN  IF MapFailure(content) # <<>>
             THEN [threw |-> TRUE, message |-> MapFailure(content), transcript |-> <<>>]
             ELSE [threw |-> FALSE, message |-> <<>>,
                   transcript |->
                      [i \in 1..Len(content.v) |->
                         [text |-> Get(content.v[i], "text"),
                          offset |-> Get(content.v[i], "offset"),
                          duration |-> Get(content.v[i], "duration")]]]

\* mutant: the catch block raises its last error without the message caught
TranscriptFailureWithoutMessage(videoId, errorMessage) ==
    IF IncludesStr(errorMessage, <<"invalid", "video", "ID">>)
          \/ IncludesStr(errorMessage, <<"403">>)
    THEN McpError("InvalidParams", "Video not found or unavailable: ", videoId, <<>>)
    ELSE IF IncludesStr(errorMessage, <<"transcript", "not", "available">>)
    THEN McpError("InvalidParams", "No transcript available for video ID: ", videoId, <<>>)
    ELSE McpError("InternalError", "Failed to fetch transcript: ", EmptyStr, <<>>)

\* mutant: the two tests of the catch block in the other order
TranscriptFailureUnavailableFirst(videoId, errorMessage) ==
    IF IncludesStr(errorMessage, <<"transcript", "not", "available">>)
    THEN McpError("InvalidParams", "No transcript available for video ID: ", videoId, <<>>)
    ELSE IF IncludesStr(errorMessage, <<"invalid", "video", "ID">>)
          \/ IncludesStr(errorMessage, <<"403">>)
    THEN McpError("InvalidParams", "Video not found or unavailable: ", videoId, <<>>)
    ELSE McpError("InternalError", "Failed to fetch transcript: ", EmptyStr, errorMessage)

\* the catch block, lines 342-366: the first test that the message passes
TranscriptFailure(videoId, errorMessage) ==
    IF IncludesStr(errorMessage, <<"invalid", "video", "ID">>)
          \/ IncludesStr(errorMessage, <<"403">>)
    THEN McpError("InvalidParams", "Video not found or unavailable: ", videoId, <<>>)
    ELSE IF IncludesStr(errorMessage, <<"transcript", "not", "available">>)
    THEN McpError("InvalidParams", "No transcript available for video ID: ", videoId, <<>>)
    ELSE McpError("InternalError", "Failed to fetch transcript: ", EmptyStr, errorMessage)

\* mutant: an empty transcript is raised like a failure of the provider
TranscriptOutcomeEmptyThrows(videoId, reply) ==
    IF reply.status = "error" THEN TranscriptFailure(videoId, reply.message)
    ELSE LET t == ToTranscript(reply.data)
         IN  IF t.threw THEN TranscriptFailure(videoId, t.message)
             ELSE IF Len(t.transcript) = 0
             THEN TranscriptFailure(videoId, <<"transcript", "not", "available">>)
             ELSE Result("YouTube Transcript for Video ID: ", videoId, <<>>, t.transcript)

\* lines 281-341: what the handler makes of the reply of the provider
TranscriptOutcome(videoId, reply) ==
    IF reply.status = "error" THEN TranscriptFailure(videoId, reply.message)
    ELSE LET t == ToTranscript(reply.data)
         IN  IF t.threw THEN TranscriptFailure(videoId, t.message)
             ELSE IF Len(t.transcript) = 0
             THEN Result("No transcript available for video ID: ", videoId,
                         <<"This", "could", "be", "due", "to:">>, <<>>)
             ELSE Result("YouTube Transcript for Video ID: ", videoId, <<>>, t.transcript)

\* the handler up to its await: the parameter check, the normalizer, the
\* credential check inside the try block, then the request is sent
TranscriptCall(c) ==
    /\ Serving
    /\ req[c] = Idle
    /\ \E rawVideoId \in VideoArgs :
         LET call == Call("get_youtube_transcript", rawVideoId, Undefined)
         IN  IF ~Truthy(rawVideoId)
             THEN /\ response' = ToolResponse(call, NoReply, EmptyBag,
                        McpError("InvalidParams", "videoId parameter is required", EmptyStr, <<>>))
                  /\ req' = req
             ELSE IF ~Truthy(rapidApiKey)
             THEN /\ response' = ToolResponse(call, NoReply, EmptyBag,
                        TranscriptFailure(extractVideoId(rawVideoId.v), KeyMissing))
                  /\ req' = req
             ELSE /\ response' = NoResponse
                  /\ req' = [req EXCEPT ![c] = call]
    /\ UNCHANGED <<rows, now, lastStored, rapidApiKey, normVars, renderVars, lifeVars, envVars>>

\* the provider answers and the handler resumes
TranscriptDone(c) ==
    /\ Alive
    /\ Pending(c, "get_youtube_transcript")
    /\ \E reply \in UpstreamReplies :
         response' = ToolResponse(req[c], reply, EmptyBag,
                        TranscriptOutcome(extractVideoId(req[c].videoId.v), reply))
    /\ req' = [req EXCEPT ![c] = Idle]
    /\ UNCHANGED <<rows, now, lastStored, rapidApiKey, normVars, renderVars, lifeVars, envVars>>

-----------------------------------------------------------------------------
(* searchYouTube: src/index.ts 369-510 *)

Query == <<"c", "a", "t", "s">>

\* the query arguments a caller may send
QueryArgs == {Undefined, Str(EmptyStr), Str(Query)}

SearchCallOf(query) ==
    [tool |-> "search_youtube", videoId |-> Undefined, summary |-> Undefined,
     rivals |-> {}, query |-> query]

Snippet(description) ==
    [t |-> "object", title |-> Str(<<"t">>), channelTitle |-> Str(<<"c">>),
     description |-> description]

Item(id, snippet) == [t |-> "object", id |-> id, snippet |-> snippet]

ItemA == Item([t |-> "object", videoId |-> Str(VID)], Snippet(Str(<<"d">>)))

Items(items) == [t |-> "object", items |-> items]

\* response.data of a reply of the search API with a success status
SearchBodies ==
    { Undefined,                               \* no body
      [t |-> "object"],                        \* a body without items
      Items(Arr(<<>>)),
      Items(Arr(<<ItemA>>)),
      Items(Arr(<<ItemA, ItemA>>)),
      Items(Str(<<"o", "o", "p", "s">>)),      \* items that is no array
      Items(Arr(<<Item(Undefined, Snippet(Str(<<"d">>)))>>)),
      Items(Arr(<<Item([t |-> "object"], Snippet(Undefined))>>)),
      Items(Arr(<<Null>>)) }

SearchFailures ==
    { <<"Request", "failed", "with", "status", "code", "403">>,
      <<"Request", "failed", "with", "status", "code", "400">>,
      <<"quotaExceeded">>,
      <<"Network", "Error">> }

SearchReplies ==
    {[status |-> "ok", data |-> d] : d \in SearchBodies}
        \cup {[status |-> "error", message |-> m] : m \in SearchFailures}

YoutubeKeyMissing ==
    <<"YouTube", "API", "key", "not", "found.", "Please", "set",
      "YOUTUBE_API_KEY", "in", "your", ".env", "file.">>

\* the catch block, lines 483-509
SearchFailure(errorMessage) ==
    IF IncludesStr(errorMessage, <<"403">>)
    THEN McpError("InvalidParams", "YouTube API access forbidden.", EmptyStr, <<>>)
    ELSE IF IncludesStr(errorMessage, <<"400">>)
    THEN McpError("InvalidParams", "Invalid search parameters.", EmptyStr, <<>>)
    ELSE IF IncludesStr(errorMessage, <<"quotaExceeded">>)
    THEN McpError("InternalError", "YouTube API quota exceeded.", EmptyStr, <<>>)
    ELSE McpError("InternalError", "Failed to search YouTube: ", EmptyStr, errorMessage)

\* lines 442-456 run on an item without raising: item.id.videoId,
\* snippet.title, snippet.description.substring
CanFormat(item) ==
    /\ item.t = "object"
    /\ Get(item, "id").t = "object"
    /\ Get(item, "snippet").t = "object"
    /\ Get(Get(item, "snippet"), "description").t = "string"

\* lines 426-482: what the handler makes of the reply of the search API
SearchOutcome(query, reply) ==
    IF reply.status = "error" THEN SearchFailure(reply.message)
    ELSE LET data == reply.data
             items == Get(data, "items")
         IN  IF data.t \in {"undefined", "null"}
             THEN SearchFailure(<<"Cannot", "read", "properties", "of", "undefined">>)
             ELSE IF ~Truthy(items) \/ items = Arr(<<>>)
             THEN Result("No YouTube videos found for query: ", query, <<>>, <<>>)
             ELSE IF items.t # "array"
             THEN SearchFailure(<<"searchResults.items.map", "is", "not", "a", "function">>)
             ELSE IF \E i \in 1..Len(items.v) : ~CanFormat(items.v[i])
             THEN SearchFailure(<<"Cannot", "read", "properties", "of", "undefined">>)
             ELSE Result("YouTube Search Results for: ", query, <<>>, items.v)

\* the handler up to its await: the parameter check and the credential
\* check, both before the try block, then the request is sent
SearchCall(c) ==
    /\ Serving
    /\ req[c] = Idle
    /\ \E query \in QueryArgs :
         LET call == SearchCallOf(query)
         IN  IF ~Truthy(query)
             THEN /\ response' = ToolResponse(call, NoReply, EmptyBag,
                        McpError("InvalidParams", "query parameter is required", EmptyStr, <<>>))
                  /\ req' = req
             ELSE IF ~Truthy(youtubeApiKey)
             THEN /\ response' = ToolResponse(call, NoReply, EmptyBag,
                        McpError("InternalError", "YouTube API key not found.", EmptyStr,
                                 YoutubeKeyMissing))
                  /\ req' = req
             ELSE /\ response' = NoResponse
                  /\ req' = [req EXCEPT ![c] = call]
    /\ UNCHANGED <<rows, now, lastStored, rapidApiKey, normVars, renderVars, lifeVars, envVars>>

\* the search API answers and the handler resumes
SearchDone(c) ==
    /\ Alive
    /\ Pending(c, "search_youtube")
    /\ \E reply \in SearchReplies :
         response' = ToolResponse(req[c], reply, EmptyBag,
                        SearchOutcome(req[c].query.v, reply))
    /\ req' = [req EXCEPT ![c] = Idle]
    /\ UNCHANGED <<rows, now, lastStored, rapidApiKey, normVars, renderVars, lifeVars, envVars>>

-----------------------------------------------------------------------------
(* formatTimestamp: src/index.ts 592-605, the same text in src/cli.js 42-55 *)

Digits == <<"0", "1", "2", "3", "4", "5", "6", "7", "8", "9">>

\* Number.prototype.toString of a non-negative integer
RECURSIVE toString(_)
toString(n) ==
    IF n < 10 THEN <<Digits[n + 1]>>
    ELSE toString(n \div 10) \o <<Digits[(n % 10) + 1]>>

\* s.padStart(2, "0")
padStart(s) == IF Len(s) >= 2 THEN s ELSE <<"0">> \o s

\* mutant: the seconds are rounded to the nearest instead of cut
formatTimestampRounding(offsetMs) ==
    LET totalSeconds == (offsetMs + 500) \div 1000
        hours == totalSeconds \div 3600
        minutes == (totalSeconds % 3600) \div 60
        seconds == totalSeconds % 60
    IN  IF hours > 0
        THEN toString(hours) \o <<":">> \o padStart(toString(minutes))
                 \o <<":">> \o padStart(toString(seconds))
        ELSE toString(minutes) \o <<":">> \o padStart(toString(seconds))

formatTimestamp(offsetMs) ==
    LET totalSeconds == offsetMs \div 1000
        hours == totalSeconds \div 3600
        minutes == (totalSeconds % 3600) \div 60
        seconds == totalSeconds % 60
    IN  IF hours > 0
        THEN toString(hours) \o <<":">> \o padStart(toString(minutes))
                 \o <<":">> \o padStart(toString(seconds))
        ELSE toString(minutes) \o <<":">> \o padStart(toString(seconds))

-----------------------------------------------------------------------------
(* The rendering of a transcript: src/index.ts 293-328 *)

\* `[${timestamp}] ${entry.text}`
FormatEntry(entry) ==
    <<"[">> \o formatTimestamp(entry.offset.v) \o <<"]", " ">> \o entry.text.v

\* mutant: every line is terminated, the last one too
RECURSIVE JoinTerminating(_, _)
JoinTerminating(lines, sep) ==
    IF Len(lines) = 0 THEN EmptyStr
    ELSE Head(lines) \o sep \o JoinTerminating(Tail(lines), sep)

\* Array.prototype.join
RECURSIVE Join(_, _)
Join(lines, sep) ==
    IF Len(lines) = 0 THEN EmptyStr
    ELSE IF Len(lines) = 1 THEN Head(lines)
    ELSE Head(lines) \o sep \o Join(Tail(lines), sep)

\* lines 315-320
FormattedTranscript(t) ==
    Join([i \in 1..Len(t) |-> FormatEntry(t[i])], <<"\n">>)

\* mutant: the duration is read from the largest offset
DurationOfMax(t) ==
    formatTimestamp(SetMax({t[i].offset.v : i \in 1..Len(t)}))

\* lines 325-327: transcript[transcript.length - 1]?.offset || 0
Duration(t) ==
    LET last == t[Len(t)].offset
    IN  formatTimestamp(IF Truthy(last) THEN last.v ELSE 0)

NotRendered == [kind |-> "pending"]

\* lines 293-341 on a transcript the mapping produced
Render ==
    /\ rendering = NotRendered
    /\ rendering' =
          IF Len(transcript) = 0
          THEN [kind |-> "none", formattedTranscript |-> EmptyStr,
                totalSegments |-> 0, duration |-> EmptyStr]
          ELSE [kind |-> "transcript",
                formattedTranscript |-> FormattedTranscript(transcript),
                totalSegments |-> Len(transcript),
                duration |-> Duration(transcript)]
    /\ UNCHANGED <<transcript, storeVars, normVars, lifeVars, envVars>>

-----------------------------------------------------------------------------
(* The server *)

\* CURRENT_TIMESTAMP moves on
Tick ==
    /\ now < MaxTime
    /\ now' = now + 1
    /\ response' = NoResponse
    /\ UNCHANGED <<rows, req, lastStored, rapidApiKey, normVars, renderVars, lifeVars, envVars>>

Init ==
    /\ rows = EmptyBag
    /\ now = 0
    /\ req = [c \in Clients |-> Idle]
    /\ response = NoResponse
    /\ lastStored = [k \in Keys |-> {}]
    /\ rapidApiKey = Str(<<"k">>)
    /\ raw = EmptyStr
    /\ vid = EmptyStr
    /\ pc = "ready"
    /\ transcript = <<>>
    /\ rendering = NotRendered
    /\ life = Started
    /\ youtubeApiKey = Str(<<"k">>)

\* the store side of the server: invocations of the store tools and direct
\* calls of the store overlap freely
Next ==
    \/ Tick
    \/ \E c \in Clients : StoreSummaryCall(c)
    \/ \E c \in Clients : StoreSummaryDone(c)
    \/ \E c \in Clients : FetchSummaryCall(c)
    \/ \E c \in Clients : FetchSummaryDone(c)
    \/ \E c \in Clients : DeleteCall(c)
    \/ \E c \in Clients : DeleteDone(c)

Spec == Init /\ [][Next]_vars

-----------------------------------------------------------------------------
(* The tools served one invocation at a time, the transcript tool among them *)

FirstClient == CHOOSE c \in Clients : TRUE

ServeInit ==
    /\ rows = EmptyBag
    /\ now = 0
    /\ req = [c \in Clients |-> Idle]
    /\ response = NoResponse
    /\ lastStored = [k \in Keys |-> {}]
    /\ rapidApiKey \in {Undefined, Str(<<"k">>)}
    /\ raw = EmptyStr
    /\ vid = EmptyStr
    /\ pc = "ready"
    /\ transcript = <<>>
    /\ rendering = NotRendered
    /\ life = Started
    /\ youtubeApiKey \in {Undefined, Str(<<"k">>)}

ServeNext ==
    \/ UnknownToolCall(FirstClient)
    \/ BadArgumentsCall(FirstClient)
    \/ TranscriptCall(FirstClient)
    \/ TranscriptDone(FirstClient)
    \/ SearchCall(FirstClient)
    \/ SearchDone(FirstClient)
    \/ StoreSummaryCall(FirstClient)
    \/ StoreSummaryDone(FirstClient)
    \/ FetchSummaryCall(FirstClient)
    \/ FetchSummaryDone(FirstClient)
    \/ DeleteCall(FirstClient)
    \/ DeleteDone(FirstClient)

SpecServe == ServeInit /\ [][ServeNext]_vars

-----------------------------------------------------------------------------
(* Runs of the normalizer alone, on every input *)

Normalize ==
    /\ pc = "ready"
    /\ vid' = extractVideoId(raw)
    /\ pc' = "returned"
    /\ UNCHANGED <<raw, storeVars, renderVars, lifeVars, envVars>>

NormInit ==
    /\ rows = EmptyBag
    /\ now = 0
    /\ req = [c \in Clients |-> Idle]
    /\ response = NoResponse
    /\ lastStored = [k \in Keys |-> {}]
    /\ rapidApiKey = Undefined
    /\ raw \in Inputs
    /\ vid = EmptyStr
    /\ pc = "ready"
    /\ transcript = <<>>
    /\ rendering = NotRendered
    /\ life = Started
    /\ youtubeApiKey = Str(<<"k">>)

SpecNorm == NormInit /\ [][Normalize]_vars

-----------------------------------------------------------------------------
(* Runs of the rendering alone, on every short sequence of segments *)

MaxSegments == 2

\* offsets in milliseconds, in no particular order, around every boundary
\* of the format
Offsets ==
    {0, 999, 7000, 59000, 60000, 65000, 3599999, 3600000, 3661000, 36610000}

\* captions, one of them in two lines
Texts == {<<"a">>, <<"b">>, EmptyStr, <<"a", "\n", "b">>}

\* the entries the mapping of lines 286-290 yields for well-typed records
Entries ==
    {[text |-> Str(x), offset |-> Num(o), duration |-> Num(500)] :
        x \in Texts, o \in Offsets}

RECURSIVE Transcripts(_)
Transcripts(n) ==
    IF n = 0 THEN {<<>>}
    ELSE LET shorter == Transcripts(n - 1)
         IN  shorter \cup {Append(s, e) : s \in shorter, e \in Entries}

RenderInit ==
    /\ rows = EmptyBag
    /\ now = 0
    /\ req = [c \in Clients |-> Idle]
    /\ response = NoResponse
    /\ lastStored = [k \in Keys |-> {}]
    /\ rapidApiKey = Undefined
    /\ raw = EmptyStr
    /\ vid = EmptyStr
    /\ pc = "ready"
    /\ transcript \in Transcripts(MaxSegments)
    /\ rendering = NotRendered
    /\ life = Started
    /\ youtubeApiKey = Str(<<"k">>)

SpecRender == RenderInit /\ [][Render]_vars

-----------------------------------------------------------------------------
(* The life of the process, from the constructors to process.exit *)

\* mutant: close rethrows what it caught, as the other methods do
CloseRethrowing(database, ok) ==
    [raised |-> ~ok, database |-> IF ok THEN "closed" ELSE database]

\* DatabaseService.close, src/database.ts 153-160: what client.close()
\* raises is logged and not passed on
Close(database, ok) ==
    [raised |-> FALSE, database |-> IF ok THEN "closed" ELSE database]

\* run(), line 609: the statements of initialize come back; a failure is
\* rethrown, run() rejects and the catch of line 621 exits with 1
InitializeDone ==
    /\ Alive
    /\ life.run = "initialize"
    /\ \E ok \in StatementOutcomes :
          life' = IF ok
                  THEN [life EXCEPT !.run = "connect", !.database = "open"]
                  ELSE [life EXCEPT !.run = "failed", !.exit = "1"]
    /\ response' = NoResponse
    /\ UNCHANGED <<rows, now, req, lastStored, rapidApiKey, normVars, renderVars, envVars>>

\* run(), lines 611-615: the transport is connected
ConnectDone ==
    /\ Alive
    /\ life.run = "connect"
    /\ life' = [life EXCEPT !.run = "running", !.transport = "connected"]
    /\ response' = NoResponse
    /\ UNCHANGED <<rows, now, req, lastStored, rapidApiKey, normVars, renderVars, envVars>>

\* the SIGINT handler, lines 67-68: database.close() is called and awaited;
\* were it to raise, the handler would stop there
Sigint ==
    /\ Alive
    /\ life.sigint = "idle"
    /\ \E ok \in BOOLEAN :
          LET closed == Close(life.database, ok)
          IN  life' = [life EXCEPT !.database = closed.database,
                                    !.sigint = IF closed.raised THEN "rejected"
                                               ELSE "closeServer"]
    /\ response' = NoResponse
    /\ UNCHANGED <<rows, now, req, lastStored, rapidApiKey, normVars, renderVars, envVars>>

\* the SIGINT handler, line 69: server.close() is called and awaited
SigintCloseServer ==
    /\ Alive
    /\ life.sigint = "closeServer"
    /\ life' = [life EXCEPT !.sigint = "exit",
                           !.transport = IF @ = "connected" THEN "closed" ELSE @]
    /\ response' = NoResponse
    /\ UNCHANGED <<rows, now, req, lastStored, rapidApiKey, normVars, renderVars, envVars>>

\* the SIGINT handler, line 70
SigintExit ==
    /\ Alive
    /\ life.sigint = "exit"
    /\ life' = [life EXCEPT !.exit = "0"]
    /\ response' = NoResponse
    /\ UNCHANGED <<rows, now, req, lastStored, rapidApiKey, normVars, renderVars, envVars>>

\* the file of the store as an earlier run of the process may have left it
StoredBefore == {EmptyBag, SetToBag({Row(VID, SummaryX, 0, 0)})}

LifeInit ==
    /\ rows \in StoredBefore
    /\ now = 0
    /\ req = [c \in Clients |-> Idle]
    /\ response = NoResponse
    /\ lastStored = [k \in Keys |-> SummariesOf(rows, k)]
    /\ rapidApiKey = Str(<<"k">>)
    /\ raw = EmptyStr
    /\ vid = EmptyStr
    /\ pc = "ready"
    /\ transcript = <<>>
    /\ rendering = NotRendered
    /\ life = Constructed
    /\ youtubeApiKey = Str(<<"k">>)

LifeNext ==
    \/ InitializeDone
    \/ ConnectDone
    \/ Sigint
    \/ SigintCloseServer
    \/ SigintExit
    \/ StoreSummaryCall(FirstClient)
    \/ StoreSummaryDone(FirstClient)
    \/ FetchSummaryCall(FirstClient)
    \/ FetchSummaryDone(FirstClient)

SpecLife == LifeInit /\ [][LifeNext]_vars

-----------------------------------------------------------------------------
(* Properties of the summary store, checked under Spec *)

StoreCommitted ==
    /\ response.call.tool = "storeVideoSummary"
    /\ response.result.outcome = "result"

CreatedAtOf(tbl, id) == {r.created_at : r \in BagToSet(RowsOf(tbl, id))}

\* C1: an upsert of a videoId that already has a record leaves the
\* created_at of that record as the first insert set it.
C1_CreatedAtKeptByUpsert ==
    (StoreCommitted /\ response.before # EmptyBag)
        => CreatedAtOf(rows, response.call.videoId.v)
              = {r.created_at : r \in BagToSet(response.before)}

\* C2: the stored summary of a videoId is the summary argument of the most
\* recent committed upsert, whatever was stored before, and a lookup that
\* follows returns that summary.
C2_LastUpsertWins ==
    /\ \A k \in Keys :
          lastStored[k] # {} => SummariesOf(rows, k) = lastStored[k]
    /\ ( /\ response.call.tool = "fetchExistingVideoSummary"
         /\ response.reply = DbDone
         /\ lastStored[response.call.videoId.v] # {} )
          => \E s \in lastStored[response.call.videoId.v] :
                response.result
                   = Result("Summary for video ID: ", response.call.videoId.v, s, <<>>)

\* an upsert has just replaced a record that held another summary
C2_Witness ==
    /\ StoreCommitted
    /\ \E r \in BagToSet(response.before) : r.summary # response.call.summary.v
    /\ SummariesOf(rows, response.call.videoId.v) = {response.call.summary.v}

\* C3: in every reachable state there is at most one record per videoId.
C3_OneRecordPerVideoId ==
    \A r \in BagToSet(rows) : RowCount(rows, r.video_id) = 1

\* an upsert over an existing record, with a record of another videoId
\* present and a remove of the same videoId waiting
C3_Witness ==
    /\ StoreCommitted
    /\ response.before # EmptyBag
    /\ Cardinality({r.video_id : r \in BagToSet(rows)}) = 2
    /\ \E c \in Clients :
          /\ Pending(c, "deleteVideoSummary")
          /\ req[c].videoId = response.call.videoId

\* C4: when an upsert commits after another upsert of the same videoId
\* committed while it was waiting, there is exactly one record of that
\* videoId and its summary is the whole summary of one of the upserts in
\* flight, the one that committed last.
C4_ConcurrentUpsertsWhole ==
    (StoreCommitted /\ response.call.rivals # {})
        => /\ RowCount(rows, response.call.videoId.v) = 1
           /\ SummariesOf(rows, response.call.videoId.v)
                 \subseteq ({response.call.summary.v} \cup response.call.rivals)
           /\ SummariesOf(rows, response.call.videoId.v) = {response.call.summary.v}

\* two upserts of one videoId with different summaries overlapped and both
\* have committed
C4_Witness ==
    /\ StoreCommitted
    /\ \E s \in response.call.rivals :
          /\ s # response.call.summary.v
          /\ s \in {r.summary : r \in BagToSet(response.before)}
    /\ RowCount(rows, response.call.videoId.v) = 1

\* C5: every videoId the storeVideoSummary and fetchExistingVideoSummary
\* tools hand to the store is the normalizer's output for the raw input, so
\* a summary stored under one accepted form of a video reference is found
\* under any other accepted form of the same video.
C5_StoreKeyedByCanonicalId ==
    /\ \A c \in Clients :
          (Pending(c, "storeVideoSummary") \/ Pending(c, "fetchExistingVideoSummary"))
             => req[c].videoId.v = extractVideoId(req[c].videoId.v)
    /\ ( /\ response.call.tool = "fetchExistingVideoSummary"
         /\ response.result.outcome = "result"
         /\ response.result.msg = "No summary found for video ID: " )
          => \A k \in Keys :
                extractVideoId(k) = extractVideoId(response.call.videoId.v)
                   => lastStored[k] = {}

\* a lookup whose statement ran
LookupAnswered ==
    /\ response.call.tool = "fetchExistingVideoSummary"
    /\ response.reply = DbDone

\* C17: a lookup of a non-empty videoId that has no record, because none was
\* ever upserted or because it was removed since, returns the not-found
\* signal, the text "No summary found for video ID: X", and raises no
\* failure (the statement itself having run).
C17_LookupOfAbsentIsNotFound ==
    (LookupAnswered /\ lastStored[response.call.videoId.v] = {})
        => /\ response.result.outcome = "result"
           /\ response.result.msg = "No summary found for video ID: "
           /\ response.result.id = response.call.videoId.v
           /\ response.result.detail = <<>>

\* a lookup found nothing for a videoId while another videoId had a record
\* and an upsert of the looked-up videoId was waiting on its statement
C17_Witness ==
    /\ LookupAnswered
    /\ response.call.videoId = Str(VID)
    /\ response.result.msg = "No summary found for video ID: "
    /\ RowCount(rows, ShortUrl) = 1
    /\ \E c \in Clients :
          Pending(c, "storeVideoSummary") /\ req[c].videoId = Str(VID)

Present(tbl, id) == RowCount(tbl, id) > 0

\* C19: per videoId the only changes of the store are absent -> present by
\* a successful upsert of that videoId, present -> present by a later
\* successful upsert that replaces the summary, and present -> absent by a
\* remove of that videoId; a lookup, a rejected upsert and a remove of an
\* absent videoId leave the records of every videoId as they were.
C19_OnlyThreeTransitions ==
    [][ /\ \A k \in Keys :
              LET by(tool) ==
                      /\ response'.call.tool = tool
                      /\ response'.call.videoId = Str(k)
                      /\ response'.reply = DbDone
              IN  /\ (~Present(rows, k) /\ Present(rows', k))
                        => by("storeVideoSummary")
                  /\ (Present(rows, k) /\ Present(rows', k)
                         /\ RowsOf(rows', k) # RowsOf(rows, k))
                        => by("storeVideoSummary")
                  /\ (Present(rows, k) /\ ~Present(rows', k))
                        => by("deleteVideoSummary")
                  /\ by("storeVideoSummary")
                        => SummariesOf(rows', k) = {response'.call.summary.v}
                  /\ (by("deleteVideoSummary") /\ ~Present(rows, k))
                        => rows' = rows
        /\ response'.call.tool = "fetchExistingVideoSummary" => rows' = rows
        /\ (response'.call.tool = "storeVideoSummary"
               /\ response'.result.outcome = "error") => rows' = rows ]_vars

\* a remove has taken the record of one videoId away and left the record
\* of another
C19_Witness ==
    /\ response.call.tool = "deleteVideoSummary"
    /\ response.reply = DbDone
    /\ response.before # EmptyBag
    /\ ~Present(rows, response.call.videoId.v)
    /\ \E k \in Keys : Present(rows, k)

\* C20: a remove of a non-empty videoId returns true exactly when a record
\* of that videoId existed just before the statement, and afterwards none
\* exists; it returns false and changes nothing when none existed.  The
\* records of the other videoIds stay.
C20_RemoveReportsExistence ==
    [][ (response'.call.tool = "deleteVideoSummary" /\ response'.reply = DbDone)
          => LET k == response'.call.videoId.v
             IN  /\ response'.result
                       = Returned(IF Present(rows, k) THEN "true" ELSE "false")
                 /\ ~Present(rows', k)
                 /\ RowsNot(rows', k) = RowsNot(rows, k)
                 /\ ~Present(rows, k) => rows' = rows ]_vars

\* a remove of a videoId without record returned false while another
\* videoId had a record
C20_Witness ==
    /\ response.call.tool = "deleteVideoSummary"
    /\ response.result = Returned("false")
    /\ response.before = EmptyBag
    /\ rows # EmptyBag

UpdatedAtOf(tbl, id) == {r.updated_at : r \in BagToSet(RowsOf(tbl, id))}

\* C21: an upsert of a videoId without record creates one whose created_at
\* and updated_at are both the time at which the upsert runs; every
\* successful upsert, insert or update, sets updated_at to that time, so
\* updated_at never goes down across the upserts of one videoId.
C21_UpdatedAtIsTimeOfUpsert ==
    StoreCommitted =>
        LET k == response.call.videoId.v
        IN  /\ UpdatedAtOf(rows, k) = {now}
            /\ response.before = EmptyBag => CreatedAtOf(rows, k) = {now}
            /\ \A r \in BagToSet(response.before) :
                  \A u \in UpdatedAtOf(rows, k) : r.updated_at <= u

\* an upsert has replaced a record written at an earlier time
C21_Witness ==
    /\ StoreCommitted
    /\ \E r \in BagToSet(response.before) : r.updated_at < now
    /\ UpdatedAtOf(rows, response.call.videoId.v) = {now}

\* C22: whenever the medium refuses the statement of an upsert, a lookup or
\* a remove, the caller gets a failure: the tool raises the typed error
\* InternalError that names the operation and carries the message of the
\* medium, the store method called directly raises the error itself; none
\* of them reports success or "not found", and the records are as they were.
C22_MediumFailureReachesCaller ==
    response.reply = DbError =>
        /\ response.result.outcome = "error"
        /\ response.call.tool = "storeVideoSummary"
              => /\ response.result.code = "InternalError"
                 /\ response.result.msg = "Failed to store video summary: "
                 /\ response.result.detail = DbFailure
        /\ response.call.tool = "fetchExistingVideoSummary"
              => /\ response.result.code = "InternalError"
                 /\ response.result.msg = "Failed to fetch video summary: "
                 /\ response.result.detail = DbFailure
        /\ response.call.tool = "deleteVideoSummary"
              => response.result.code = "Error"
        /\ RowsOf(rows, response.call.videoId.v) = response.before

\* the statement of a lookup was refused while the videoId had a record
C22_Witness ==
    /\ response.call.tool = "fetchExistingVideoSummary"
    /\ response.reply = DbError
    /\ response.before # EmptyBag
    /\ response.result.code = "InternalError"

\* C30: a step changes the rows of a videoId only when it is the statement
\* of an upsert or of a remove for that very videoId: the records of every
\* other videoId (their presence, summary, created_at and updated_at) are
\* as they were, and a lookup changes the rows of no videoId.
C30_OtherRecordsUntouched ==
    [][ \A k \in Keys :
           ( \/ response'.call.tool \notin {"storeVideoSummary", "deleteVideoSummary"}
             \/ response'.call.videoId # Str(k) )
              => RowsOf(rows', k) = RowsOf(rows, k) ]_vars

\* an upsert for one videoId has replaced its record while the record of
\* another videoId is in the table
C30_Witness ==
    /\ StoreCommitted
    /\ response.call.videoId = Str(VID)
    /\ response.before # EmptyBag
    /\ RowCount(rows, VID) = 1
    /\ RowCount(rows, ShortUrl) = 1

-----------------------------------------------------------------------------
(* Properties of the transcript and lookup tools, checked under SpecServe *)

TranscriptAnswered ==
    /\ response.call.tool = "get_youtube_transcript"
    /\ response.reply.status \in {"ok", "error"}

\* the provider answered with no captions at all
NoCaptions(data) ==
    \/ ~Truthy(data)
    \/ ~Truthy(Get(data, "content"))
    \/ Get(data, "content") = Arr(<<>>)

ProviderSaysUnavailable ==
    /\ response.reply.status = "error"
    /\ IncludesStr(response.reply.message, <<"transcript", "not", "available">>)

SummaryAbsent ==
    /\ response.call.tool = "fetchExistingVideoSummary"
    /\ response.reply = DbDone
    /\ response.before = EmptyBag

NoTranscriptResult ==
    Result("No transcript available for video ID: ",
           extractVideoId(response.call.videoId.v),
           <<"This", "could", "be", "due", "to:">>, <<>>)

Malformed(data) ==
    \/ data.t \in {"undefined", "null"}
    \/ Get(data, "content") = Undefined
    \/ Get(data, "content").t # "array"
    \/ \E i \in 1..Len(Get(data, "content").v) : Get(data, "content").v[i].t # "object"

\* C7: a malformed payload of the provider is treated as an empty
\* transcript: the outcome is the "no transcript available" result.
C7_MalformedPayloadIsEmpty ==
    (TranscriptAnswered /\ response.reply.status = "ok"
        /\ Malformed(response.reply.data))
        => response.result = NoTranscriptResult

\* the captions field is not there: no body, or a body without it
CaptionsAbsent(data) ==
    \/ data.t \in {"undefined", "null"}
    \/ data.t = "object" /\ "content" \notin DOMAIN data

\* C16: when the mapped sequence of segments is empty, because the provider
\* returned no captions or because the field that holds them was absent,
\* the transcript tool returns the "No transcript available" result for the
\* normalized videoId, with no segment, as a normal outcome and not as an
\* error.
C16_EmptyTranscriptIsResult ==
    ( /\ TranscriptAnswered
      /\ response.reply.status = "ok"
      /\ \/ CaptionsAbsent(response.reply.data)
         \/ Get(response.reply.data, "content") = Arr(<<>>) )
        => /\ response.result.outcome = "result"
           /\ response.result.code = ""
           /\ response.result.msg = "No transcript available for video ID: "
           /\ response.result.id = extractVideoId(response.call.videoId.v)
           /\ response.result.segments = <<>>

\* the provider answered a URL reference with a body without captions field
C16_Witness ==
    /\ TranscriptAnswered
    /\ response.call.videoId = Str(ShortUrl)
    /\ response.reply.status = "ok"
    /\ response.reply.data = [t |-> "object"]
    /\ response.result.msg = "No transcript available for video ID: "
    /\ response.result.id = VID

\* a required parameter that is absent or empty
AbsentOrEmpty(v) == v \in {Undefined, Null, Str(EmptyStr)}

\* a parameter that carries text
IsText(v) == v.t = "string" /\ v.v # EmptyStr

\* an invocation of one of the three tools that lacks a required parameter
LacksParameter(call) ==
    \/ /\ call.tool \in {"get_youtube_transcript", "fetchExistingVideoSummary",
                          "storeVideoSummary"}
       /\ AbsentOrEmpty(call.videoId)
    \/ /\ call.tool = "storeVideoSummary"
       /\ AbsentOrEmpty(call.summary)

\* C18: an invocation of get_youtube_transcript, fetchExistingVideoSummary
\* or storeVideoSummary whose videoId is absent or empty, or of
\* storeVideoSummary whose summary is absent or empty, is rejected with
\* InvalidParams by the step that receives it; that step sends nothing
\* upstream and writes nothing: no request is left waiting, the table is
\* unchanged and no record is produced.
C18_MissingParameterRejected ==
    [][ /\ \A c \in Clients : ~LacksParameter(req'[c])
        /\ LacksParameter(response'.call)
              => /\ response'.result.outcome = "error"
                 /\ response'.result.code = "InvalidParams"
                 /\ response'.reply = NoReply
                 /\ req' = req
                 /\ rows' = rows
                 /\ lastStored' = lastStored ]_vars

\* an upsert with an empty summary has been rejected while the table held
\* a record of the same videoId, which is still there
C18_Witness ==
    /\ response.call.tool = "storeVideoSummary"
    /\ response.call.videoId = Str(VID)
    /\ response.call.summary = Str(EmptyStr)
    /\ response.result.code = "InvalidParams"
    /\ response.result.msg = "summary parameter is required"
    /\ SummariesOf(rows, VID) = {SummaryX}

\* C24: when RAPIDAPI_KEY is not set, get_youtube_transcript (given the
\* text of a videoId) fails with a typed error whose message names the missing
\* credential, and the invocation sends no request to the provider: the
\* step that receives it answers, and no request is ever waiting.
C24_MissingKeyFailsBeforeRequest ==
    [][ /\ ~Truthy(rapidApiKey)
              => \A c \in Clients : req'[c].tool # "get_youtube_transcript"
        /\ ( /\ rapidApiKey = Undefined
             /\ response'.call.tool = "get_youtube_transcript"
             /\ IsText(response'.call.videoId) )
              => /\ response'.result.outcome = "error"
                 /\ response'.result.code = "InternalError"
                 /\ IncludesStr(response'.result.detail, <<"RAPIDAPI_KEY">>)
                 /\ response'.reply = NoReply
                 /\ req' = req ]_vars

\* a transcript was asked for a URL reference without the key being set
C24_Witness ==
    /\ rapidApiKey = Undefined
    /\ response.call.tool = "get_youtube_transcript"
    /\ response.call.videoId = Str(ShortUrl)
    /\ response.result.code = "InternalError"
    /\ response.result.detail = KeyMissing

\* C27: every tool invocation that ends, ends in a result payload or in an
\* McpError (InvalidParams, InternalError or MethodNotFound), never in an
\* untyped error.  A name that is not one of the four registered tools ends
\* in MethodNotFound "Unknown tool: <name>" in the step that receives it,
\* which sends nothing upstream and leaves the table and the waiting
\* requests as they were.  An McpError a handler raises arrives with its own
\* code and message (the rejection of an empty summary, of an empty query,
\* the missing YOUTUBE_API_KEY), and an error that is no McpError (match
\* called on a videoId that is a number) arrives as InternalError "Tool
\* execution failed: " followed by its message.
C27_InvocationEndsInResultOrMcpError ==
    [][ LET call == response'.call
            r == response'.result
        IN  call.tool \notin {"idle", "deleteVideoSummary"}
              => /\ r.outcome \in {"result", "error"}
                 /\ r.outcome = "error"
                       => r.code \in {"InvalidParams", "InternalError", "MethodNotFound"}
                 /\ call.tool \notin RegisteredTools
                       => /\ r = McpError("MethodNotFound", "Unknown tool: ", EmptyStr,
                                          <<call.tool>>)
                          /\ response'.reply = NoReply
                          /\ rows' = rows
                          /\ req' = req
                          /\ lastStored' = lastStored
                 /\ ( /\ call.tool = "storeVideoSummary"
                      /\ IsText(call.videoId)
                      /\ call.summary = Str(EmptyStr) )
                       => r = McpError("InvalidParams", "summary parameter is required",
                                       EmptyStr, <<>>)
                 /\ ( /\ call.tool = "search_youtube"
                      /\ "query" \in DOMAIN call )
                       => IF call.query = Str(EmptyStr)
                          THEN r = McpError("InvalidParams", "query parameter is required",
                                            EmptyStr, <<>>)
                          ELSE (IsText(call.query) /\ youtubeApiKey = Undefined)
                                  => r = McpError("InternalError",
                                                  "YouTube API key not found.",
                                                  EmptyStr, YoutubeKeyMissing)
                 /\ ( /\ call.tool = "get_youtube_transcript"
                      /\ call.videoId.t = "number" )
                       => /\ r.outcome = "error"
                          /\ r.code = "InternalError"
                          /\ r.msg = "Tool execution failed: "
                          /\ r.detail = <<"input.match is not a function">> ]_vars

\* a transcript was asked for with a number as videoId, and the TypeError
\* of extractVideoId has arrived wrapped
C27_Witness ==
    /\ response.call.tool = "get_youtube_transcript"
    /\ response.call.videoId = Num(5)
    /\ response.result.code = "InternalError"
    /\ response.result.msg = "Tool execution failed: "

\* what the message of a failure mentions
MentionsNotFound(m) ==
    IncludesStr(m, <<"invalid", "video", "ID">>) \/ IncludesStr(m, <<"403">>)

MentionsUnavailable(m) == IncludesStr(m, <<"transcript", "not", "available">>)

\* C26: a failure of the request for a transcript is surfaced as exactly one
\* of three typed failures, the first that its message selects: "Video not
\* found or unavailable" (InvalidParams) when it mentions an invalid video
\* ID or 403; else "No transcript available" (InvalidParams) when it
\* mentions "transcript not available"; else InternalError "Failed to fetch
\* transcript: " followed by the message as it was.  Every failure the
\* handler raises once it has the text of a videoId is one of the three.
C26_FailureClassifiedByFirstMatch ==
    /\ (TranscriptAnswered /\ response.reply.status = "error")
          => LET m == response.reply.message
                 r == response.result
             IN  /\ r.outcome = "error"
                 /\ IF MentionsNotFound(m)
                    THEN /\ r.code = "InvalidParams"
                         /\ r.msg = "Video not found or unavailable: "
                         /\ r.id = extractVideoId(response.call.videoId.v)
                    ELSE IF MentionsUnavailable(m)
                    THEN /\ r.code = "InvalidParams"
                         /\ r.msg = "No transcript available for video ID: "
                         /\ r.id = extractVideoId(response.call.videoId.v)
                    ELSE /\ r.code = "InternalError"
                         /\ r.msg = "Failed to fetch transcript: "
                         /\ r.detail = m
    /\ ( /\ response.call.tool = "get_youtube_transcript"
         /\ IsText(response.call.videoId)
         /\ response.result.outcome = "error" )
          => <<response.result.code, response.result.msg>>
                \in { <<"InvalidParams", "Video not found or unavailable: ">>,
                      <<"InvalidParams", "No transcript available for video ID: ">>,
                      <<"InternalError", "Failed to fetch transcript: ">> }

\* a failure whose message mentions both 403 and "transcript not available"
\* has been reported as "Video not found or unavailable"
C26_Witness ==
    /\ TranscriptAnswered
    /\ response.reply.status = "error"
    /\ MentionsNotFound(response.reply.message)
    /\ MentionsUnavailable(response.reply.message)
    /\ response.result.msg = "Video not found or unavailable: "

-----------------------------------------------------------------------------
(* Properties of the normalizer, checked under SpecNorm *)

IdChars ==
    {
     "a", "b", "c", "d", "e", "f", "g", "h", "i", "j", "k", "l", "m",
     "n", "o", "p", "q", "r", "s", "t", "u", "v", "w", "x", "y", "z",
     "A", "B", "C", "D", "E", "F", "G", "H", "I", "J", "K", "L", "M",
     "N", "O", "P", "Q", "R", "S", "T", "U", "V", "W", "X", "Y", "Z",
     "0", "1", "2", "3", "4", "5", "6", "7", "8", "9", "-", "_" }

HasScheme(v) == IncludesStr(v, <<":", "/", "/">>)

HasHost(v) ==
    \/ IncludesStr(v, <<"y", "o", "u", "t", "u", "b", "e", ".", "c", "o", "m">>)
    \/ IncludesStr(v, <<"y", "o", "u", "t", "u", ".", "b", "e">>)

\* no URL scheme, no host, no query delimiter, no path separator
CanonicalLooking(v) ==
    /\ ~HasScheme(v)
    /\ ~HasHost(v)
    /\ \A i \in 1..Len(v) : v[i] \notin {"?", "&", "=", "/"}

\* the characters the claims count as ending an identifier
Terminators == {"&", "?", "#"}

\* where the text that starts at j ends: before the next terminator, or at
\* the end of the string
IdentifierEnd(s, j) ==
    LET stops == {k \in j..Len(s) : s[k] \in Terminators}
    IN  IF stops = {} THEN Len(s) ELSE SetMin(stops) - 1

\* a bare identifier, or scheme and host prefix, one of the four markers, an
\* identifier, and then nothing or a terminator
WellFormedReference(s) ==
    \/ \A i \in 1..Len(s) : s[i] \in IdChars
    \/ \E pre \in {EmptyStr, Https, HttpsWww}, m \in Markers :
          LET j == Len(pre) + Len(m) + 1
          IN  /\ MatchAt(s, 1, pre \o m)
              /\ j <= Len(s)
              /\ IdentifierEnd(s, j) >= j
              /\ \A k \in j..IdentifierEnd(s, j) : s[k] \in IdChars

\* C8 as stated: for every input the value returned contains no URL scheme,
\* no host, no query delimiter and no path separator.
C8_ResultNeverHasUrlParts ==
    pc = "returned" => CanonicalLooking(vid)

\* C8 as amended: the value returned contains none of them when the input
\* is a bare identifier or one of the four URL shapes followed by an
\* identifier (of letters, digits, '-' and '_') that ends the string or is
\* followed by '&', '?' or '#'.
C8_ResultOfUrlHasNoUrlParts ==
    (pc = "returned" /\ WellFormedReference(raw)) => CanonicalLooking(vid)

\* a watch URL with a further query parameter has been normalized
C8_Witness ==
    /\ pc = "returned"
    /\ raw = WatchMarker \o VID \o <<"&">> \o TParam
    /\ vid = VID

\* C9: every string of 11 characters with neither '/' nor '=' is returned
\* unchanged, whatever its other characters.
C9_ElevenCharsUnchanged ==
    (pc = "returned" /\ Len(raw) = 11 /\ ~Includes(raw, "/") /\ ~Includes(raw, "="))
        => vid = raw

\* eleven characters, query delimiters among them, came back as they were
C9_Witness ==
    /\ pc = "returned"
    /\ raw = Odd11
    /\ vid = raw

\* C10: for each of the four URL shapes followed by an identifier that ends
\* at '&', '?', '#' or the end of the string, the value returned is exactly
\* the text between the marker and that end.  The marker is the first one
\* in the input and the identifier is not empty and holds no line break.
C10_UrlShapeYieldsIdentifier ==
    pc = "returned" =>
        \A m \in {WatchMarker, ShortMarker, EmbedMarker, PathMarker}, i \in 1..Len(raw) :
            LET j == i + Len(m)
                e == IdentifierEnd(raw, j)
            IN  ( /\ MatchAt(raw, i, m)
                  /\ \A h \in 1..(i - 1) :
                        \A other \in {WatchMarker, ShortMarker, EmbedMarker, PathMarker} :
                           ~MatchAt(raw, h, other)
                  /\ e >= j
                  /\ ~Includes(SubSeq(raw, j, e), "\n") )
                   => vid = SubSeq(raw, j, e)

\* an embed URL with a fragment has been normalized
C10_Witness ==
    /\ pc = "returned"
    /\ raw = EmbedMarker \o VID \o <<"#">>
    /\ vid = VID

\* a marker of one of the recognized URL shapes occurs in the string: one of
\* the four markers, or the watch form with its v= parameter further on
MarkerOccurs(s) ==
    \/ \E m \in Markers : IncludesStr(s, m)
    \/ \E i \in 1..Len(s), q \in 1..Len(s) :
          /\ MatchAt(s, i, WatchPrefix)
          /\ q >= i + Len(WatchPrefix)
          /\ MatchAt(s, q, VParam)

\* C11: the normalizer is total on strings (a run on any input ends by
\* returning, never by failing, and what it returns is a string made of
\* characters of the input), and an input that does not satisfy the
\* 11-character rule and holds none of the URL markers is returned unchanged.
C11_TotalAndFallbackUnchanged ==
    /\ pc \in {"ready", "returned"}
    /\ pc = "returned" =>
          /\ \A i \in 1..Len(vid) : \E j \in 1..Len(raw) : vid[i] = raw[j]
          /\ (~IsBareId(raw) /\ ~MarkerOccurs(raw)) => vid = raw

\* a string with scheme, host and query delimiters but no marker came back
\* as it was
C11_Witness ==
    /\ pc = "returned"
    /\ raw = HttpsWww \o <<"?">> \o VParam
    /\ ~IsBareId(raw)
    /\ ~MarkerOccurs(raw)
    /\ vid = raw

\* the characters that end a video id inside a URL
QueryDelimiters == {"&", "?", "#", "\n"}

\* a URL pattern matches: a marker, or the watch form with a v= further on
\* in the same line, is followed by a character that can start an id
PatternMatches(s) ==
    \/ \E i \in 1..Len(s), m \in Markers :
          /\ MatchAt(s, i, m)
          /\ i + Len(m) <= Len(s)
          /\ s[i + Len(m)] \notin QueryDelimiters
    \/ \E i \in 1..Len(s), q \in 1..Len(s) :
          /\ MatchAt(s, i, WatchPrefix)
          /\ q >= i + Len(WatchPrefix)
          /\ MatchAt(s, q, VParam)
          /\ \A k \in (i + Len(WatchPrefix))..(q - 1) : s[k] # "\n"
          /\ q + Len(VParam) <= Len(s)
          /\ s[q + Len(VParam)] \notin QueryDelimiters

\* C28: when the input is not a bare 11-character id and a URL pattern
\* matches it, what extractVideoId returns is not empty, occurs in the input
\* as a run of consecutive characters, and holds none of '&', '?', '#' and
\* newline.
C28_PatternResultIsCleanSubstring ==
    (pc = "returned" /\ ~IsBareId(raw) /\ PatternMatches(raw))
        => /\ vid # EmptyStr
           /\ \E i \in 1..Len(raw) : MatchAt(raw, i, vid)
           /\ \A k \in 1..Len(vid) : vid[k] \notin QueryDelimiters

\* a short URL whose id is followed by a newline gave the id
C28_Witness ==
    /\ pc = "returned"
    /\ raw = ShortMarker \o VID \o <<"\n">>
    /\ PatternMatches(raw)
    /\ vid = VID

\* the positions at which the query string of a watch URL starts
QueryStarts(s) ==
    {i + Len(WatchPrefix) : i \in {k \in 1..Len(s) : MatchAt(s, k, WatchPrefix)}}

\* the positions of a parameter named v in the query string that starts at
\* p: "v=" at p or right after an '&', before any fragment
VParameters(s, p) ==
    {q \in p..Len(s) :
        /\ MatchAt(s, q, VParam)
        /\ q = p \/ s[q - 1] = "&"
        /\ \A k \in p..(q - 1) : s[k] \notin {"#", "?", "\n"}}

\* the characters after the "v=" at q up to the next delimiter or the end
ValueAt(s, q) ==
    LET j == q + Len(VParam)
        stops == {k \in j..Len(s) : s[k] \in QueryDelimiters}
    IN  SubSeq(s, j, IF stops = {} THEN Len(s) ELSE SetMin(stops) - 1)

\* C29: for a watch URL whose query string carries one parameter v with a
\* value, first or later and whatever follows it, extractVideoId returns
\* the value of v: the characters after "v=" up to the next '&', '#', '?'
\* or the end.
C29_WatchUrlGivesValueOfV ==
    pc = "returned"
        => \A p \in QueryStarts(raw) :
              \A q \in VParameters(raw, p) :
                 ( /\ Cardinality(QueryStarts(raw)) = 1
                   /\ Cardinality(VParameters(raw, p)) = 1
                   /\ \A m \in Markers \ {WatchMarker} : ~IncludesStr(raw, m)
                   /\ ValueAt(raw, q) # EmptyStr )
                    => vid = ValueAt(raw, q)

-----------------------------------------------------------------------------
(* Properties of the formatter and of the rendering, checked under SpecRender *)

Rendered == rendering.kind = "transcript"

\* the pieces of s between the occurrences of ch
RECURSIVE SplitOn(_, _)
SplitOn(s, ch) ==
    LET cuts == {i \in 1..Len(s) : s[i] = ch}
    IN  IF cuts = {} THEN <<s>>
        ELSE <<SubSeq(s, 1, SetMin(cuts) - 1)>>
                 \o SplitOn(SubSeq(s, SetMin(cuts) + 1, Len(s)), ch)

DigitValue(ch) == CHOOSE d \in 0..9 : Digits[d + 1] = ch

IsNumeral(s) == Len(s) > 0 /\ \A i \in 1..Len(s) : \E d \in 0..9 : Digits[d + 1] = s[i]

RECURSIVE ParseNat(_)
ParseNat(s) ==
    IF Len(s) = 0 THEN 0
    ELSE 10 * ParseNat(SubSeq(s, 1, Len(s) - 1)) + DigitValue(s[Len(s)])

\* the reference of the format, read off the output: the fields between the
\* colons, what they are worth and how they are padded
IsFormatOf(out, offsetMs) ==
    LET s == offsetMs \div 1000
        f == SplitOn(out, ":")
        n == Len(f)
    IN  /\ n = (IF s >= 3600 THEN 3 ELSE 2)
        /\ \A i \in 1..n : IsNumeral(f[i])
        /\ Len(f[1]) = 1 \/ f[1][1] # "0"
        /\ \A i \in 2..n : Len(f[i]) = 2 /\ ParseNat(f[i]) \in 0..59
        /\ IF n = 3
           THEN /\ ParseNat(f[1]) = s \div 3600
                /\ ParseNat(f[1]) * 3600 + ParseNat(f[2]) * 60 + ParseNat(f[3]) = s
           ELSE ParseNat(f[1]) * 60 + ParseNat(f[2]) = s

\* C12: for a non-negative integer offsetMs the output of formatTimestamp is
\* 'h:MM:SS' when the whole seconds (offsetMs div 1000, cut, not rounded)
\* make an hour or more, otherwise 'm:SS'; minutes and seconds are in 0..59
\* and two digits wide except in the leading position, which is never
\* padded; 0 -> '0:00', 59000 -> '0:59', 60000 -> '1:00',
\* 3600000 -> '1:00:00', 3661000 -> '1:01:01'.
C12_FormatIsReference ==
    /\ formatTimestamp(0) = <<"0", ":", "0", "0">>
    /\ formatTimestamp(59000) = <<"0", ":", "5", "9">>
    /\ formatTimestamp(60000) = <<"1", ":", "0", "0">>
    /\ formatTimestamp(3600000) = <<"1", ":", "0", "0", ":", "0", "0">>
    /\ formatTimestamp(3661000) = <<"1", ":", "0", "1", ":", "0", "1">>
    /\ Rendered =>
          IsFormatOf(rendering.duration, transcript[Len(transcript)].offset.v)

\* an offset just short of an hour has been formatted
C12_Witness ==
    /\ Rendered
    /\ transcript[Len(transcript)].offset.v = 3599999
    /\ rendering.duration = <<"5", "9", ":", "5", "9">>

\* the lines of a text: its pieces between the line feeds
LinesOf(s) == SplitOn(s, "\n")

\* C13: for every non-empty sequence of segments, whatever their text, the
\* number of lines of the rendered text equals totalSegments and the line of
\* each segment starts with '[' + format(offset of that segment) + '] '.
C13_LinesMatchSegments ==
    Rendered =>
        LET lines == LinesOf(rendering.formattedTranscript)
        IN  /\ Len(lines) = rendering.totalSegments
            /\ \A i \in 1..Len(transcript) :
                  i <= Len(lines) =>
                     LET start == <<"[">> \o formatTimestamp(transcript[i].offset.v)
                                        \o <<"]", " ">>
                     IN  MatchAt(lines[i], 1, start)

\* what the line of an entry must be
ExpectedEntry(e) ==
    <<"[">> \o formatTimestamp(e.offset.v) \o <<"]", " ">> \o e.text.v

\* where the line of the i-th entry must start in the rendered text
RECURSIVE EntryStart(_, _)
EntryStart(t, i) ==
    IF i = 1 THEN 1
    ELSE EntryStart(t, i - 1) + Len(ExpectedEntry(t[i - 1])) + 1

\* C14: the rendered text is, in input order and without sorting, the text
\* '[' + format(offset) + '] ' + text of every segment, with one line feed
\* between two neighbours and nothing after the last.
C14_RenderedTextIsJoin ==
    Rendered =>
        LET txt == rendering.formattedTranscript
            n == Len(transcript)
        IN  /\ Len(txt) = EntryStart(transcript, n) + Len(ExpectedEntry(transcript[n])) - 1
            /\ \A i \in 1..n :
                  MatchAt(txt, EntryStart(transcript, i), ExpectedEntry(transcript[i]))
            /\ \A i \in 2..n : txt[EntryStart(transcript, i) - 1] = "\n"

\* two segments whose offsets go down have been rendered in input order
C14_Witness ==
    /\ Rendered
    /\ Len(transcript) = 2
    /\ transcript[1].offset.v = 7000
    /\ transcript[2].offset.v = 0
    /\ rendering.formattedTranscript
          = <<"[", "0", ":", "0", "7", "]", " ", "b", "\n",
              "[", "0", ":", "0", "0", "]", " ", "a">>

\* C15: for every non-empty sequence of segments the duration of the summary
\* is the format of the offset of the last segment in input order, not of
\* the largest offset and not of offset plus duration.
C15_DurationIsLastOffset ==
    Rendered =>
        rendering.duration = formatTimestamp(transcript[Len(transcript)].offset.v)

\* the last segment has a smaller offset than the first, and its offset plus
\* its duration would format differently
C15_Witness ==
    /\ Rendered
    /\ Len(transcript) = 2
    /\ transcript[1].offset.v = 3661000
    /\ transcript[2].offset.v = 999
    /\ rendering.duration = <<"0", ":", "0", "0">>
    /\ formatTimestamp(transcript[2].offset.v + transcript[2].duration.v)
          # rendering.duration

-----------------------------------------------------------------------------
(* Properties of the life of the process, checked under SpecLife *)

\* C23: closing the store never raises to its caller, also when the store
\* was never initialized or when the underlying close fails: the SIGINT
\* handler, which awaits it, always goes on to close the server; and the
\* step that closes leaves every committed record as it was.
C23_CloseNeverRaises ==
    [][ /\ life'.sigint # "rejected"
        /\ (life.sigint = "idle" /\ life'.sigint # "idle")
              => /\ life'.sigint = "closeServer"
                 /\ rows' = rows
                 /\ lastStored' = lastStored ]_vars

\* close was called on a store that was never initialized, the underlying
\* close failed, and the handler went on; the record of an earlier run is
\* still there
C23_Witness ==
    /\ life.sigint = "closeServer"
    /\ life.database = "created"
    /\ life.run = "initialize"
    /\ rows = SetToBag({Row(VID, SummaryX, 0, 0)})

\* a tool invocation hands its statement to the store in this step
ReachesStore(c) ==
    /\ req'[c] # req[c]
    /\ req'[c].tool \in {"storeVideoSummary", "fetchExistingVideoSummary"}

====
